---- MODULE Spec2Model ----
(***************************************************************************)
(* Validation-and-reconciliation engine of literature_agent.               *)
(*                                                                         *)
(* Modelled code:                                                          *)
(*   src/bin/common/validation.py  validate_json_response, split_by_qc,    *)
(*                                 handle_error, ValidationError,          *)
(*                                 validate_llm_response,                  *)
(*                                 save_validated_responses                *)
(*   src/bin/common/models.py      MetadataResponse, pprint                *)
(*   src/bin/utils.py              handle_error, ValidationError,          *)
(*                                 validate_decision_response              *)
(*   src/bin/llm_process_articles.py  llm_process_articles                 *)
(*                                                                         *)
(* A response text is a sequence of tokens.  A token is one character,     *)
(* except that a JSON value literal (an object or a scalar) is one token:  *)
(* the code never looks inside a literal other than through json.loads.    *)
(***************************************************************************)
EXTENDS Integers, Sequences, FiniteSets, TLC

\* ------------------------------------------------------------------------
\* Bounds
\* ------------------------------------------------------------------------
\* longest JSON list (number of elements) in a generated response text
MaxItems == 2
\* longest article batch
MaxBatch == 2
\* longest response map handed to validate_decision_response
MaxDecisions == 2

\* ------------------------------------------------------------------------
\* Tokens of a response text
\* ------------------------------------------------------------------------
\* JSON object literals that may occur in a response
ObjTokens == {"O1", "O2", "D1", "B1", "N1", "E"}
\* JSON scalar literal (a string such as "string")
ScalarTokens == {"S"}
ValueTokens == ObjTokens \cup ScalarTokens
\* whitespace: removed by str.strip() and skipped by json.loads
WS == {" ", "\n"}

\* the backtick character
BQ == "bq"

Fence3Json == <<BQ, BQ, BQ, "j", "s", "o", "n">>
Fence3 == <<BQ, BQ, BQ>>
Fence1 == <<BQ>>
\* explanatory prose in front of a fenced block
Prose == <<"H", ":", "\n">>

\* ------------------------------------------------------------------------
\* Python str operations
\* ------------------------------------------------------------------------
\* str.startswith
StartsWith(s, p) ==
    /\ Len(s) >= Len(p)
    /\ SubSeq(s, 1, Len(p)) = p

\* str.endswith
EndsWith(s, p) ==
    /\ Len(s) >= Len(p)
    /\ SubSeq(s, Len(s) - Len(p) + 1, Len(s)) = p

\* s[a:-b] for a, b >= 0 with b > 0 (empty when the two ends overlap)
SliceEnds(s, a, b) ==
    IF a + 1 > Len(s) - b THEN <<>> ELSE SubSeq(s, a + 1, Len(s) - b)

RECURSIVE LStrip(_)
LStrip(s) ==
    IF s # <<>> /\ Head(s) \in WS THEN LStrip(Tail(s)) ELSE s

RECURSIVE RStrip(_)
RStrip(s) ==
    IF s # <<>> /\ s[Len(s)] \in WS THEN RStrip(SubSeq(s, 1, Len(s) - 1)) ELSE s

\* str.strip
Strip(s) == RStrip(LStrip(s))

\* ------------------------------------------------------------------------
\* json.loads on the token grammar
\*   text  ::= ws value ws
\*   value ::= literal | "[" ws "]" | "[" ws elems ws "]"
\*   elems ::= value | value ws "," ws elems         (elements are literals)
\* ------------------------------------------------------------------------
JsonFail == [ok |-> FALSE, kind |-> "none", items |-> <<>>]

\* parse a comma-separated run of literals; s is already stripped and non-empty
RECURSIVE ParseElems(_, _)
ParseElems(s, acc) ==
    IF s = <<>> \/ Head(s) \notin ValueTokens THEN JsonFail
    ELSE LET rest == LStrip(Tail(s))
             acc2 == Append(acc, Head(s))
         IN  IF rest = <<>> THEN [ok |-> TRUE, kind |-> "list", items |-> acc2]
             ELSE IF Head(rest) = "," THEN ParseElems(LStrip(Tail(rest)), acc2)
             ELSE JsonFail

JsonLoads(text) ==
    LET s == Strip(text) IN
    IF s = <<>> THEN JsonFail
    ELSE IF Len(s) = 1 /\ s[1] \in ObjTokens
        THEN [ok |-> TRUE, kind |-> "dict", items |-> <<>>]
    ELSE IF Len(s) = 1 /\ s[1] \in ScalarTokens
        THEN [ok |-> TRUE, kind |-> "scalar", items |-> <<>>]
    ELSE IF Len(s) >= 2 /\ s[1] = "[" /\ s[Len(s)] = "]"
        THEN LET inner == Strip(SubSeq(s, 2, Len(s) - 1))
             IN  IF inner = <<>> THEN [ok |-> TRUE, kind |-> "list", items |-> <<>>]
                 ELSE ParseElems(inner, <<>>)
    ELSE JsonFail

\* ------------------------------------------------------------------------
\* Exceptions
\* ------------------------------------------------------------------------
NoExc == [exc |-> "none", msg |-> ""]

\* number of positional arguments of common.validation.ValidationError
ValidationErrorArity == 2

\* ValidationError of common/validation.py: the constructor takes
\* (item, error_msg); any other number of arguments is a TypeError.
NewValidationError(nargs, msg) ==
    IF nargs = ValidationErrorArity
        THEN [exc |-> "ValidationError", msg |-> msg]
        ELSE [exc |-> "TypeError", msg |-> "__init__() takes 3 positional arguments"]

\* ------------------------------------------------------------------------
\* validate_json_response (common/validation.py)
\*   input: [type |-> "str" | "None" | "int", text |-> token sequence]
\*   result: [exc, msg, items]   (exc = "none": the list is returned)
\* ------------------------------------------------------------------------
\* the chain with the plain fence tested before the json fence
StripFence_PlainFirst(t) ==
    IF StartsWith(t, Fence3) /\ EndsWith(t, Fence3)
        THEN Strip(SliceEnds(t, 3, 3))
    ELSE IF StartsWith(t, Fence3Json) /\ EndsWith(t, Fence3)
        THEN Strip(SliceEnds(t, 7, 3))
    ELSE IF StartsWith(t, Fence1) /\ EndsWith(t, Fence1)
        THEN Strip(SliceEnds(t, 1, 1))
    ELSE t

\* the fence-stripping if/elif chain
StripFence(t) ==
    IF StartsWith(t, Fence3Json) /\ EndsWith(t, Fence3)
        THEN Strip(SliceEnds(t, 7, 3))
    ELSE IF StartsWith(t, Fence3) /\ EndsWith(t, Fence3)
        THEN Strip(SliceEnds(t, 3, 3))
    ELSE IF StartsWith(t, Fence1) /\ EndsWith(t, Fence1)
        THEN Strip(SliceEnds(t, 1, 1))
    ELSE t

JsonResult(e, items) == [exc |-> e.exc, msg |-> e.msg, items |-> items]

\* a parse failure swallowed as an empty list
LoadOrRaise_Swallow(t) ==
    LET r == JsonLoads(t) IN
    IF ~r.ok
        THEN [ok |-> TRUE, kind |-> "list", items |-> <<>>, err |-> NoExc]
        ELSE [ok |-> TRUE, kind |-> r.kind, items |-> r.items, err |-> NoExc]

\* json.loads and its except clause
LoadOrRaise(t) ==
    LET r == JsonLoads(t) IN
    IF ~r.ok
        THEN [ok |-> FALSE, kind |-> "none", items |-> <<>>,
              err |-> NewValidationError(3, "Response is not valid JSON.")]
        ELSE [ok |-> TRUE, kind |-> r.kind, items |-> r.items, err |-> NoExc]

validate_json_response(input) ==
    IF input.type # "str" \/ input.text = <<>>
        THEN JsonResult(NewValidationError(3, "Empty or non-string response."), <<>>)
    ELSE LET r == LoadOrRaise(StripFence(input.text)) IN
         IF ~r.ok THEN JsonResult(r.err, <<>>)
         ELSE IF r.kind # "list"
            THEN JsonResult(NewValidationError(3, "Response should be a list."), <<>>)
         ELSE IF \E i \in 1..Len(r.items) : r.items[i] \notin ObjTokens
            THEN JsonResult(NewValidationError(3,
                    "Each item in the response list should be a dictionary."), <<>>)
         ELSE JsonResult(NoExc, r.items)

\* ------------------------------------------------------------------------
\* Values, response objects and articles
\* ------------------------------------------------------------------------
\* a Python value: its type and its printed form
Str(v) == [t |-> "str", v |-> v]
HttpUrl(v) == [t |-> "HttpUrl", v |-> v]
None == [t |-> "None", v |-> ""]

\* str(x)
PyStr(x) == Str(x.v)

\* the JSON object a literal token stands for (a dict from keys to values)
Obj(tok) ==
    CASE tok = "O1" -> [title |-> Str("T1"), summary |-> Str("S1"),
                        url |-> Str("http://u1/"), doi |-> Str("10.1234/a")]
      [] tok = "O2" -> [title |-> Str("T2"), summary |-> Str("S2"),
                        url |-> Str("http://u2/"), doi |-> Str("10.1234/b")]
      [] tok = "D1" -> [doi |-> Str("10.1234/a"), decision |-> Str(<<"T", "R", "U", "E", ".">>),
                        reasoning |-> Str("relevant")]
      [] tok = "B1" -> [title |-> Str("T3"), summary |-> Str("S3"),
                        url |-> Str("http://u3/"), doi |-> Str("not-a-doi")]
      [] tok = "N1" -> [title |-> Str("T4"), summary |-> Str("S4"),
                        url |-> Str("http://u4/"), doi |-> Str("NULL")]
      [] OTHER -> <<>>

Stages == {"metadata", "screening", "priority"}

\* strings accepted by pydantic's HttpUrl
HttpUrls == {"http://u1/", "http://u2/", "http://u3/", "http://u4/"}

\* strings matching ^10\.\d{4,}/[^\s]+$
DoiMatches == {"10.1234/a", "10.1234/b", "10.1234/c"}

\* MetadataResponse.is_valid_doi
is_valid_doi(doi) == doi \in DoiMatches

\* MetadataResponse.model_fields, in declaration order
MetadataFields == <<"title", "summary", "url", "doi">>

\* MetadataResponse.model_validate: every field required, str fields are
\* strings, url parses as an HttpUrl, doi passes is_valid_doi
MetadataValid(item) ==
    /\ {"title", "summary", "url", "doi"} \subseteq DOMAIN item
    /\ item.title.t = "str"
    /\ item.summary.t = "str"
    /\ item.url.t = "str" /\ item.url.v \in HttpUrls
    /\ item.doi.t = "str" /\ is_valid_doi(item.doi.v)

\* the validated record: what getattr returns for each model field, and the
\* fields whose read raises KeyError (none for a pydantic model)
MetadataResponse(item) ==
    [model_fields |-> MetadataFields,
     val |-> [title |-> item.title, summary |-> item.summary,
              url |-> HttpUrl(item.url.v), doi |-> item.doi],
     keyerr |-> {}]

\* the models dict of validate_llm_response
ModelStages == {"metadata"}

\* pprint(item) for a dict parsed from JSON: item.model_dump_json is looked
\* up on the first value, which is never a pydantic model
pprint_raises(item) == DOMAIN item # {}

\* handle_error(item, error_msg, allow_errors) of common/validation.py
handle_error(msg, allow_errors) ==
    IF allow_errors THEN NoExc ELSE NewValidationError(2, msg)

\* fields of an article
ArticleFields == {"title", "summary", "doi", "url"}

\* an article: its attributes, the fields whose assignment raises
\* ValidationError, and its error annotation ("" when it has none)
Article(url, doi, title, noset) ==
    [attrs |-> [title |-> title, summary |-> None, url |-> url, doi |-> doi],
     noset |-> noset,
     error |-> ""]

\* ------------------------------------------------------------------------
\* State
\* ------------------------------------------------------------------------
VARIABLES
    stage,          \* "metadata" | "screening" | "priority"
    allow,          \* allow_qc_errors / allow_errors
    merge_key,      \* "url" | "doi"
    input,          \* response_text handed to validate_llm_response
    response,       \* the list returned by validate_json_response
    vi,             \* position of validate_llm_response's loop over response
    response_pass,  \* dict: key -> validated record
    articles,       \* the article batch (objects, mutated in place)
    si,             \* position of split_by_qc's loop over articles
    articles_pass,  \* list of references (batch positions)
    articles_fail,  \* list of references (batch positions)
    files,          \* names of the files written
    pc,             \* "json" | "validate" | "split" | "done" | "raised" | "idle"
    exc,            \* the exception that ended the run
    jin,            \* validate_json_response called directly: its argument
    jres,           \*   its result
    wkind,          \*   the fence the argument was then wrapped in
    wres,           \*   the result for the wrapped argument
    decisions,      \* utils.validate_decision_response: the response entries
    di,             \*   position of its loop
    dpass,          \*   its pass map (keys)
    dfail,          \*   its fail map (keys)
    dpc,            \*   "loop" | "returned" | "raised" | "idle"
    dexc,           \*   the exception that ended it
    dimpl,          \*   "utils" (utils.py) | "common" (common/validation.py)
    values,         \* get_common_variations: its argument expected_values
    variations,     \*   the dict it returned
    nin,            \*   a decision text then looked up in that dict
    nout,           \*   the outcome of the lookup
    cmodel,         \* the response model whose clean_response is called
    cin,            \*   the raw decision handed to it
    cout,           \*   its outcome
    metadata,       \* validate_metadata_response: the response entries
    mi,             \*   position of its loop
    mpass,          \*   its pass map
    mfail,          \*   its fail map
    mpc,            \*   "loop" | "returned" | "raised" | "idle"
    mexc,           \*   the exception that ended it
    zarticles,      \* insert_article: the number of articles loaded
    zi,             \*   iterations done over both loops, plus one
    articles_to_insert, \* the article batch being filled (positions)
    notes_to_insert,    \* the note batch being filled (positions)
    counter,        \*   its counter
    zotero_keys,    \*   the articles that have a Zotero key
    zcalls,         \*   the create_items calls made, with their responses
    zpc,            \*   "running" | "done" | "raised" | "idle"
    zexc,           \*   the exception that ended it
    rarticles,      \* remove_processed: the articles loaded (their urls)
    ritems,         \*   the items of the Zotero collection
    unprocessed,    \*   the content of unprocessed_articles.json
    rpc,            \*   "call" | "done" | "idle"
    particles,      \* prioritize_articles: the screened batch, each article
                    \*   with its doi and the raw decision text
    pproducer,      \*   "utils" | "models": what normalized the decisions
    pscreened,      \*   the articles as the screening stage saved them
    pbatch,         \*   the articles kept for prioritization
    ppc             \*   "screen" | "filter" | "done" | "idle"

pipeVars == <<stage, allow, merge_key, input, response, vi, response_pass,
              articles, si, articles_pass, articles_fail, files, pc, exc>>
jsonVars == <<jin, jres, wkind, wres>>
decVars == <<decisions, di, dpass, dfail, dpc, dexc, dimpl>>
vocVars == <<values, variations, nin, nout>>
modelVars == <<cmodel, cin, cout>>
metaVars == <<metadata, mi, mpass, mfail, mpc, mexc>>
zotVars == <<zarticles, zi, articles_to_insert, notes_to_insert, counter,
             zotero_keys, zcalls, zpc, zexc>>
remVars == <<rarticles, ritems, unprocessed, rpc>>
prioVars == <<particles, pproducer, pscreened, pbatch, ppc>>
toolVars == <<zotVars, remVars, prioVars>>
extVars == <<vocVars, modelVars, metaVars, toolVars>>
vars == <<stage, allow, merge_key, input, response, vi, response_pass,
          articles, si, articles_pass, articles_fail, files, pc, exc,
          jin, jres, wkind, wres, decisions, di, dpass, dfail, dpc, dexc, dimpl,
          values, variations, nin, nout, cmodel, cin, cout,
          metadata, mi, mpass, mfail, mpc, mexc, toolVars>>

Raised(e, where) == [exc |-> e.exc, msg |-> e.msg, at |-> where]
NotRaised == [exc |-> "none", msg |-> "", at |-> ""]

\* the empty dict
EmptyMap == <<>>

\* d[k] = v
DictSet(d, k, v) == [x \in DOMAIN d \cup {k} |-> IF x = k THEN v ELSE d[x]]

\* ------------------------------------------------------------------------
\* validate_llm_response (common/validation.py)
\* ------------------------------------------------------------------------
\* line 155: response = validate_json_response(response_text, stage)
ValidateJson ==
    /\ pc = "json"
    /\ LET r == validate_json_response(input) IN
       IF r.exc # "none"
          THEN /\ pc' = "raised"
               /\ exc' = Raised(r, "json")
               /\ UNCHANGED <<response, vi, response_pass>>
          ELSE /\ pc' = "validate"
               /\ response' = r.items
               /\ vi' = 1
               /\ response_pass' = EmptyMap
               /\ UNCHANGED exc
    /\ UNCHANGED <<stage, allow, merge_key, input, articles, si,
                   articles_pass, articles_fail, files>>
    /\ UNCHANGED jsonVars
    /\ UNCHANGED decVars
    /\ UNCHANGED extVars

\* does models[stage].model_validate(item) raise (KeyError for a stage
\* without a model, pydantic's ValidationError for an invalid object)?
ModelValidateRaises(st, item) ==
    \/ st \notin ModelStages
    \/ ~MetadataValid(item)

\* lines 163-170: one iteration of the loop over the response
ValidateItem ==
    /\ pc = "validate"
    /\ vi <= Len(response)
    /\ LET item == Obj(response[vi]) IN
       IF ~ModelValidateRaises(stage, item)
          THEN LET article == MetadataResponse(item)
                   key == PyStr(article.val[merge_key])
               IN  /\ response_pass' = DictSet(response_pass, key, article)
                   /\ vi' = vi + 1
                   /\ UNCHANGED <<pc, exc>>
          ELSE IF pprint_raises(item)
             THEN /\ pc' = "raised"
                  /\ exc' = [exc |-> "AttributeError",
                             msg |-> "'str' object has no attribute 'model_dump_json'",
                             at |-> "validate"]
                  /\ UNCHANGED <<response_pass, vi>>
             ELSE LET e == handle_error("Validation failed for item", allow) IN
                  IF e.exc # "none"
                     THEN /\ pc' = "raised"
                          /\ exc' = Raised(e, "validate")
                          /\ UNCHANGED <<response_pass, vi>>
                     ELSE /\ vi' = vi + 1
                          /\ UNCHANGED <<response_pass, pc, exc>>
    /\ UNCHANGED <<stage, allow, merge_key, input, response, articles, si,
                   articles_pass, articles_fail, files>>
    /\ UNCHANGED jsonVars
    /\ UNCHANGED decVars
    /\ UNCHANGED extVars

\* line 175: return response_pass; llm_process_articles then calls
\* save_validated_responses, which enters split_by_qc (lines 74-75)
ValidateReturn ==
    /\ pc = "validate"
    /\ vi > Len(response)
    /\ pc' = "split"
    /\ si' = 1
    /\ articles_pass' = <<>>
    /\ articles_fail' = <<>>
    /\ UNCHANGED <<stage, allow, merge_key, input, response, vi, response_pass,
                   articles, files, exc>>
    /\ UNCHANGED jsonVars
    /\ UNCHANGED decVars
    /\ UNCHANGED extVars

\* ------------------------------------------------------------------------
\* split_by_qc (common/validation.py)
\* ------------------------------------------------------------------------
\* n references to the same article
Repeat(x, n) == [j \in 1..n |-> x]

\* the loop over model_fields with a copy that also resets the url
RECURSIVE CopyFields_DropsUrl(_, _, _, _, _)
CopyFields_DropsUrl(a, rec, fields, allow_errors, nfail) ==
    IF fields = <<>> THEN [a |-> a, nfail |-> nfail, err |-> NoExc]
    ELSE LET f == Head(fields) IN
         IF f \in rec.keyerr
            THEN LET e == handle_error("Expected field not found in QC pass data.",
                                       allow_errors)
                 IN  IF e.exc # "none"
                        THEN [a |-> a, nfail |-> nfail, err |-> e]
                        ELSE CopyFields_DropsUrl(a, rec, Tail(fields), allow_errors,
                                                 nfail + 1)
         ELSE IF f \in a.noset
            THEN LET e == handle_error("Validation error for field in QC pass data.",
                                       allow_errors)
                 IN  IF e.exc # "none"
                        THEN [a |-> a, nfail |-> nfail, err |-> e]
                        ELSE CopyFields_DropsUrl(a, rec, Tail(fields), allow_errors,
                                                 nfail + 1)
         ELSE CopyFields_DropsUrl([a EXCEPT !.attrs[f] = rec.val[f], !.attrs.url = None],
                                  rec, Tail(fields), allow_errors, nfail)

\* lines 81-97: the loop over the record's model_fields.  A KeyError on
\* getattr or a ValidationError on setattr calls handle_error, appends the
\* article to articles_fail and continues with the next FIELD.
\* Result: the article, the number of appends to articles_fail, the
\* exception raised by handle_error.
RECURSIVE CopyFields(_, _, _, _, _)
CopyFields(a, rec, fields, allow_errors, nfail) ==
    IF fields = <<>> THEN [a |-> a, nfail |-> nfail, err |-> NoExc]
    ELSE LET f == Head(fields) IN
         IF f \in rec.keyerr
            THEN LET e == handle_error("Expected field not found in QC pass data.",
                                       allow_errors)
                 IN  IF e.exc # "none"
                        THEN [a |-> a, nfail |-> nfail, err |-> e]
                        ELSE CopyFields(a, rec, Tail(fields), allow_errors, nfail + 1)
         ELSE IF f \in a.noset
            THEN LET e == handle_error("Validation error for field in QC pass data.",
                                       allow_errors)
                 IN  IF e.exc # "none"
                        THEN [a |-> a, nfail |-> nfail, err |-> e]
                        ELSE CopyFields(a, rec, Tail(fields), allow_errors, nfail + 1)
         ELSE CopyFields([a EXCEPT !.attrs[f] = rec.val[f]], rec, Tail(fields),
                         allow_errors, nfail)

\* the iteration with the article put at the front of its output list
SplitStep_Prepend ==
    /\ pc = "split"
    /\ si <= Len(articles)
    /\ LET item == articles[si]
           k == item.attrs[merge_key]
       IN  IF k \in DOMAIN response_pass
              THEN LET r == CopyFields(item, response_pass[k],
                                       response_pass[k].model_fields, allow, 0)
                   IN  /\ articles' = [articles EXCEPT ![si] = r.a]
                       /\ articles_fail' = articles_fail \o Repeat(si, r.nfail)
                       /\ IF r.err.exc # "none"
                             THEN /\ pc' = "raised"
                                  /\ exc' = Raised(r.err, "split")
                                  /\ UNCHANGED <<articles_pass, si>>
                             ELSE /\ articles_pass' = <<si>> \o articles_pass
                                  /\ si' = si + 1
                                  /\ UNCHANGED <<pc, exc>>
              ELSE LET e == handle_error("Article not found among passing articles.",
                                         allow)
                   IN  IF e.exc # "none"
                          THEN /\ pc' = "raised"
                               /\ exc' = Raised(e, "split")
                               /\ UNCHANGED <<articles, articles_pass,
                                              articles_fail, si>>
                          ELSE /\ articles_fail' = <<si>> \o articles_fail
                               /\ si' = si + 1
                               /\ UNCHANGED <<articles, articles_pass, pc, exc>>
    /\ UNCHANGED <<stage, allow, merge_key, input, response, vi, response_pass,
                   files>>
    /\ UNCHANGED jsonVars
    /\ UNCHANGED decVars
    /\ UNCHANGED extVars

\* lines 77-105: one iteration of the loop over the articles
SplitStep ==
    /\ pc = "split"
    /\ si <= Len(articles)
    /\ LET item == articles[si]
           k == item.attrs[merge_key]
       IN  IF k \in DOMAIN response_pass
              THEN LET r == CopyFields(item, response_pass[k],
                                       response_pass[k].model_fields, allow, 0)
                   IN  /\ articles' = [articles EXCEPT ![si] = r.a]
                       /\ articles_fail' = articles_fail \o Repeat(si, r.nfail)
                       /\ IF r.err.exc # "none"
                             THEN /\ pc' = "raised"
                                  /\ exc' = Raised(r.err, "split")
                                  /\ UNCHANGED <<articles_pass, si>>
                             ELSE /\ articles_pass' = Append(articles_pass, si)
                                  /\ si' = si + 1
                                  /\ UNCHANGED <<pc, exc>>
              ELSE LET e == handle_error("Article not found among passing articles.",
                                         allow)
                   IN  IF e.exc # "none"
                          THEN /\ pc' = "raised"
                               /\ exc' = Raised(e, "split")
                               /\ UNCHANGED <<articles, articles_pass,
                                              articles_fail, si>>
                          ELSE /\ articles_fail' = Append(articles_fail, si)
                               /\ si' = si + 1
                               /\ UNCHANGED <<articles, articles_pass, pc, exc>>
    /\ UNCHANGED <<stage, allow, merge_key, input, response, vi, response_pass,
                   files>>
    /\ UNCHANGED jsonVars
    /\ UNCHANGED decVars
    /\ UNCHANGED extVars

\* ------------------------------------------------------------------------
\* save_validated_responses (common/validation.py), after split_by_qc
\* ------------------------------------------------------------------------
PassFile == "pass.json"
FailFile == "fail.json"

\* the save with the pass file written unconditionally
SaveFiles_AlwaysPass ==
    /\ pc = "split"
    /\ si > Len(articles)
    /\ files' = {<<stage, PassFile>>}
                \cup (IF articles_fail # <<>> THEN {<<stage, FailFile>>} ELSE {})
    /\ pc' = "done"
    /\ UNCHANGED <<stage, allow, merge_key, input, response, vi, response_pass,
                   articles, si, articles_pass, articles_fail, exc>>
    /\ UNCHANGED jsonVars
    /\ UNCHANGED decVars
    /\ UNCHANGED extVars

\* lines 200-205: one file per non-empty list, named after the stage
SaveFiles ==
    /\ pc = "split"
    /\ si > Len(articles)
    /\ files' = (IF articles_pass # <<>> THEN {<<stage, PassFile>>} ELSE {})
                \cup (IF articles_fail # <<>> THEN {<<stage, FailFile>>} ELSE {})
    /\ pc' = "done"
    /\ UNCHANGED <<stage, allow, merge_key, input, response, vi, response_pass,
                   articles, si, articles_pass, articles_fail, exc>>
    /\ UNCHANGED jsonVars
    /\ UNCHANGED decVars
    /\ UNCHANGED extVars

\* ------------------------------------------------------------------------
\* validate_json_response called directly, then on the fenced argument
\* ------------------------------------------------------------------------
NotCalled == [called |-> FALSE, exc |-> "none", msg |-> "", items |-> <<>>]
Called(r) == [called |-> TRUE, exc |-> r.exc, msg |-> r.msg, items |-> r.items]
NoFence == [fence |-> "none", pad |-> <<>>]

\* t inside a fence: "json" = ```json ... ```, "plain" = ``` ... ```,
\* "single" = ` ... `; pad is the whitespace between the fence and t
Wrap(fence, pad, t) ==
    CASE fence = "json" -> Fence3Json \o pad \o t \o pad \o Fence3
      [] fence = "plain" -> Fence3 \o pad \o t \o pad \o Fence3
      [] fence = "single" -> Fence1 \o pad \o t \o pad \o Fence1
      [] OTHER -> t

FenceKinds == {"json", "plain", "single"}
Pads == {<<>>, <<"\n">>}

JsonCall ==
    /\ ~jres.called
    /\ jres' = Called(validate_json_response(jin))
    /\ UNCHANGED <<jin, wkind, wres>>
    /\ UNCHANGED pipeVars
    /\ UNCHANGED decVars
    /\ UNCHANGED extVars

JsonWrap ==
    /\ jres.called
    /\ jin.type = "str"
    /\ wkind = NoFence
    /\ \E f \in FenceKinds, p \in Pads :
          /\ wkind' = [fence |-> f, pad |-> p]
          /\ wres' = Called(validate_json_response(
                         [type |-> "str", text |-> Wrap(f, p, jin.text)]))
    /\ UNCHANGED <<jin, jres>>
    /\ UNCHANGED pipeVars
    /\ UNCHANGED decVars
    /\ UNCHANGED extVars

\* ------------------------------------------------------------------------
\* Decision vocabulary: get_common_variations (common/validation.py)
\* A decision text is a sequence of characters.
\* ------------------------------------------------------------------------
LowerLetters == <<"a", "d", "e", "f", "g", "h", "i", "l", "m", "n", "o", "r",
                  "s", "t", "u", "w">>
UpperLetters == <<"A", "D", "E", "F", "G", "H", "I", "L", "M", "N", "O", "R",
                  "S", "T", "U", "W">>
LetterIdx == 1..Len(LowerLetters)

IsLower(c) == \E i \in LetterIdx : LowerLetters[i] = c
IsUpper(c) == \E i \in LetterIdx : UpperLetters[i] = c
IsLetter(c) == IsLower(c) \/ IsUpper(c)

ToLower(c) ==
    IF IsUpper(c) THEN LowerLetters[CHOOSE i \in LetterIdx : UpperLetters[i] = c]
    ELSE c
ToUpper(c) ==
    IF IsLower(c) THEN UpperLetters[CHOOSE i \in LetterIdx : LowerLetters[i] = c]
    ELSE c

\* str.lower, str.upper, str.capitalize, str.title
lower(s) == [i \in 1..Len(s) |-> ToLower(s[i])]
upper(s) == [i \in 1..Len(s) |-> ToUpper(s[i])]
capitalize(s) == [i \in 1..Len(s) |-> IF i = 1 THEN ToUpper(s[i]) ELSE ToLower(s[i])]
title(s) ==
    [i \in 1..Len(s) |->
        IF i = 1 \/ ~IsLetter(s[i - 1]) THEN ToUpper(s[i]) ELSE ToLower(s[i])]

SQ == "'"
DQ == "\""
DOT == "."

\* the case forms without v.upper()
CaseForms_NoUpper(v) == {v, lower(v), capitalize(v), title(v)}

\* lines 283-288: the case forms of one canonical value
CaseForms(v) == {v, lower(v), upper(v), capitalize(v), title(v)}

\* the quoted forms only
Decorated_NoDot(k) == {<<SQ>> \o k \o <<SQ>>, <<DQ>> \o k \o <<DQ>>}

\* lines 290-296: the quoted and dotted forms of a key
Decorated(k) == {<<SQ>> \o k \o <<SQ>>, <<DQ>> \o k \o <<DQ>>, k \o <<DOT>>}

\* lines 283-288: the first loop; a later value overwrites an earlier one
\* on a shared key
RECURSIVE CaseMap(_)
CaseMap(expected_values) ==
    IF expected_values = <<>> THEN EmptyMap
    ELSE LET n == Len(expected_values)
             v == expected_values[n]
             d == CaseMap(SubSeq(expected_values, 1, n - 1))
         IN  [k \in DOMAIN d \cup CaseForms(v) |-> IF k \in CaseForms(v) THEN v ELSE d[k]]

\* lines 290-294: the update dict (a decorated key has one undecorated key)
UpdateMap(d) ==
    [x \in UNION {Decorated(k) : k \in DOMAIN d} |->
        d[CHOOSE k \in DOMAIN d : x \in Decorated(k)]]

\* get_common_variations(expected_values); line 296: d.update(update)
get_common_variations(expected_values) ==
    LET d == CaseMap(expected_values)
        u == UpdateMap(d)
    IN  [x \in DOMAIN d \cup DOMAIN u |-> IF x \in DOMAIN u THEN u[x] ELSE d[x]]

ScreeningValues == << <<"t", "r", "u", "e">>, <<"f", "a", "l", "s", "e">> >>
PriorityValues == << <<"l", "o", "w">>, <<"m", "e", "d", "i", "u", "m">>,
                     <<"h", "i", "g", "h">> >>

\* validate_screening_response / validate_priority_response: the stage's table
decision_mappings(st) ==
    IF st = "screening" THEN get_common_variations(ScreeningValues)
    ELSE get_common_variations(PriorityValues)

\* ------------------------------------------------------------------------
\* validate_decision_response, handle_error, ValidationError (utils.py)
\* ------------------------------------------------------------------------
\* a response entry d: kind "null" (None), "str" (a non-empty string),
\* "dict"; for a dict the keys it has, its decision value (type and printed
\* form) and the error annotation handle_error stored in it
Entry(kind, has, t, s) ==
    [kind |-> kind, has |-> has, decision |-> [t |-> t, s |-> s], error |-> ""]

\* number of positional arguments of utils.ValidationError
UtilsValidationErrorArity == 3

\* utils.handle_error(d, error_msg, stage, allow_errors):
\* d[f"{stage}_error"] = error_msg needs d to support item assignment
utils_handle_error(d, msg, allow_errors) ==
    IF allow_errors
       THEN IF d.kind # "dict"
               THEN [d |-> d, err |-> [exc |-> "TypeError",
                                       msg |-> "object does not support item assignment"]]
               ELSE [d |-> [d EXCEPT !.error = msg], err |-> NoExc]
       ELSE [d |-> d,
             err |-> IF UtilsValidationErrorArity = 3
                        THEN [exc |-> "ValidationError", msg |-> msg]
                        ELSE [exc |-> "TypeError", msg |-> "__init__()"]]

\* common/validation.py: handle_error(item, error_msg, allow_errors) takes
\* three parameters, validate_decision_response passes it four arguments
HandleErrorParams == 3
DecisionHandleErrorArgs == 4

\* the call handle_error(d, msg, stage, allow_errors) in
\* common/validation.py validate_decision_response
common_handle_error_call(d) ==
    IF DecisionHandleErrorArgs > HandleErrorParams
       THEN [d |-> d, err |-> [exc |-> "TypeError",
                               msg |-> "handle_error() takes from 2 to 3 positional arguments"]]
       ELSE [d |-> d, err |-> NoExc]

\* lines 224-258: the checks of one entry; "" when the entry passes
DecisionError(d, st) ==
    IF d.kind # "dict" \/ d.has = {} THEN "Empty or non-dict response."
    ELSE IF ~({"decision", "reasoning"} \subseteq d.has)
        THEN "Missing keys (decision and/or reasoning)."
    ELSE IF d.decision.s = <<>> THEN "Empty or non-string response."
    ELSE IF lower(Strip(d.decision.s)) \notin DOMAIN decision_mappings(st)
        THEN "Invalid priority value."
    ELSE ""

\* lines 223-261: one iteration of the loop over decisions.items()
DecisionStep ==
    /\ dpc = "loop"
    /\ di <= Len(decisions)
    /\ LET d == decisions[di]
           msg == DecisionError(d, stage)
       IN  IF msg = ""
              THEN /\ dpass' = DictSet(dpass, di,
                          [d EXCEPT !.decision =
                              [t |-> "str",
                               s |-> decision_mappings(stage)[lower(Strip(d.decision.s))]]])
                   /\ di' = di + 1
                   /\ UNCHANGED <<dfail, dpc, dexc>>
              ELSE LET h == IF dimpl = "utils"
                                THEN utils_handle_error(d, msg, allow)
                                ELSE common_handle_error_call(d)
                   IN
                   IF h.err.exc # "none"
                      THEN /\ dpc' = "raised"
                           /\ dexc' = h.err
                           /\ UNCHANGED <<dpass, dfail, di>>
                      ELSE /\ dfail' = DictSet(dfail, di, h.d)
                           /\ di' = di + 1
                           /\ UNCHANGED <<dpass, dpc, dexc>>
    /\ UNCHANGED <<decisions, stage, allow, dimpl>>
    /\ UNCHANGED <<merge_key, input, response, vi, response_pass, articles, si,
                   articles_pass, articles_fail, files, pc, exc>>
    /\ UNCHANGED jsonVars
    /\ UNCHANGED extVars

\* line 263: return articles_pass, articles_fail
DecisionReturn ==
    /\ dpc = "loop"
    /\ di > Len(decisions)
    /\ dpc' = "returned"
    /\ UNCHANGED <<decisions, di, dpass, dfail, dexc, dimpl>>
    /\ UNCHANGED pipeVars
    /\ UNCHANGED jsonVars
    /\ UNCHANGED extVars

\* ------------------------------------------------------------------------
\* Inputs
\* ------------------------------------------------------------------------
SeqsUpTo(S, n) == UNION {[1..k -> S] : k \in 0..n}

\* the JSON text of a list of literals; sp is the whitespace put around
\* brackets and commas
RECURSIVE ListBody(_, _)
ListBody(items, sp) ==
    IF Len(items) = 1 THEN <<items[1]>>
    ELSE <<items[1]>> \o sp \o <<",">> \o sp \o ListBody(Tail(items), sp)

ListText(items, sp) ==
    IF items = <<>> THEN <<"[">> \o sp \o <<"]">>
    ELSE <<"[">> \o sp \o ListBody(items, sp) \o sp \o <<"]">>

ItemLists == SeqsUpTo(ValueTokens, MaxItems)

\* texts that are no JSON list: prose, a top-level object, a top-level
\* scalar, an unclosed list, a trailing comma, whitespace only
NonListTexts == {<<"x">>, <<"O1">>, <<"S">>, <<"[", "O1">>,
                 <<"[", "O1", ",", "]">>, <<" ">>}

\* unfenced texts
BaseTexts ==
    {ListText(l, sp) : l \in ItemLists, sp \in {<<>>, <<" ">>}}
    \cup {<<" ">> \o ListText(l, <<>>) \o <<" ">> : l \in ItemLists}
    \cup NonListTexts

\* texts given to validate_json_response: unfenced, fenced once, prose
\* before a fenced block, bare fences, the empty string
JsonTexts ==
    BaseTexts
    \cup {Wrap(f, p, t) : f \in FenceKinds, p \in Pads, t \in BaseTexts}
    \cup {Prose \o Wrap("json", <<"\n">>, ListText(l, <<>>)) : l \in ItemLists}
    \cup {<<>>, Fence1, Fence3, Fence3Json, Fence3Json \o Fence3}

JsonInputs ==
    {[type |-> "str", text |-> t] : t \in JsonTexts}
    \cup {[type |-> "None", text |-> <<>>], [type |-> "int", text |-> <<>>]}

\* response texts of a stage run
PipelineTexts ==
    {ListText(l, <<>>) : l \in ItemLists}
    \cup {Wrap("json", <<"\n">>, ListText(l, <<>>)) : l \in ItemLists}
    \cup {<<>>, <<"x">>, <<"O1">>}

\* loaded articles (ArticleList.validate_json): url is an HttpUrl, doi a
\* str or None
LoadedArticles ==
    {Article(HttpUrl("http://u1/"), Str("10.1234/a"), None, {}),
     Article(HttpUrl("http://u2/"), Str("10.1234/b"), None, {}),
     Article(HttpUrl("http://u3/"), None, None, {})}

\* llm_process_articles line 65
MergeKeyOf(st) == IF st = "metadata" THEN "url" ELSE "doi"

PipeIdle ==
    /\ stage = "metadata" /\ allow = FALSE /\ merge_key = "doi"
    /\ input = [type |-> "str", text |-> <<>>]
    /\ response = <<>> /\ vi = 1 /\ response_pass = EmptyMap
    /\ articles = <<>> /\ si = 1 /\ articles_pass = <<>> /\ articles_fail = <<>>
    /\ files = {} /\ pc = "idle" /\ exc = NotRaised

JsonIdle == jin = [type |-> "str", text |-> <<>>] /\ jres = NotCalled
            /\ wkind = NoFence /\ wres = NotCalled

DecIdle == decisions = <<>> /\ di = 1 /\ dpass = EmptyMap /\ dfail = EmptyMap
           /\ dpc = "idle" /\ dexc = NoExc /\ dimpl = "utils"

NoVariations == [called |-> FALSE, map |-> EmptyMap]
NoLookup == [called |-> FALSE, ok |-> FALSE, value |-> <<>>]
NoValue == [t |-> "None", s |-> <<>>]
NoClean == [called |-> FALSE, exc |-> "none", lookup |-> FALSE,
            ret |-> NoValue, field |-> NoValue]

VocIdle == values = <<>> /\ variations = NoVariations /\ nin = <<>>
           /\ nout = NoLookup

ModelIdle == cmodel = "none" /\ cin = NoValue /\ cout = NoClean

MetaIdle == metadata = <<>> /\ mi = 1 /\ mpass = EmptyMap /\ mfail = EmptyMap
            /\ mpc = "idle" /\ mexc = NoExc

ZotIdle == zarticles = 0 /\ zi = 1 /\ articles_to_insert = <<>>
           /\ notes_to_insert = <<>> /\ counter = 0 /\ zotero_keys = {}
           /\ zcalls = <<>> /\ zpc = "idle" /\ zexc = "none"

NoFile == [written |-> FALSE, content |-> <<>>]

RemIdle == rarticles = <<>> /\ ritems = <<>> /\ unprocessed = NoFile /\ rpc = "idle"

PrioIdle == particles = <<>> /\ pproducer = "none" /\ pscreened = <<>>
            /\ pbatch = <<>> /\ ppc = "idle"

ToolIdle == ZotIdle /\ RemIdle /\ PrioIdle

ExtIdle == VocIdle /\ ModelIdle /\ MetaIdle /\ ToolIdle

\* ------------------------------------------------------------------------
\* Spec: one stage run, validate_llm_response then save_validated_responses
\* (llm_process_articles lines 65-79)
\* ------------------------------------------------------------------------
Init ==
    /\ stage \in Stages
    /\ allow \in BOOLEAN
    /\ merge_key = MergeKeyOf(stage)
    /\ input \in {[type |-> "str", text |-> t] : t \in PipelineTexts}
    /\ articles \in SeqsUpTo(LoadedArticles, MaxBatch)
    /\ response = <<>> /\ vi = 1 /\ response_pass = EmptyMap
    /\ si = 1 /\ articles_pass = <<>> /\ articles_fail = <<>>
    /\ files = {} /\ pc = "json" /\ exc = NotRaised
    /\ JsonIdle
    /\ DecIdle
    /\ ExtIdle

Next == ValidateJson \/ ValidateItem \/ ValidateReturn \/ SplitStep \/ SaveFiles

Spec == Init /\ [][Next]_vars

\* ------------------------------------------------------------------------
\* SpecSplit: save_validated_responses / split_by_qc on any batch and any
\* map of validated records, including records whose field read raises
\* KeyError and articles whose field assignment raises ValidationError
\* ------------------------------------------------------------------------
SplitDois == {"10.1234/a", "10.1234/b", "10.1234/c"}

SplitArticles ==
    {Article(HttpUrl("http://u1/"), Str(d), t, ns) :
        d \in SplitDois, t \in {None}, ns \in {{}, {"title"}}}

SplitRecords ==
    {[model_fields |-> mf,
      val |-> [title |-> Str("T"), summary |-> Str("S")],
      keyerr |-> ke] :
        mf \in {<<"title">>, <<"title", "summary">>},
        ke \in {{}, {"title"}, {"summary"}}}

\* dicts whose keys are DOI strings
SplitMaps ==
    UNION {[ks -> SplitRecords] : ks \in SUBSET {Str("10.1234/a"), Str("10.1234/b")}}

InitSplit ==
    /\ stage \in {"metadata", "screening"}
    /\ allow \in BOOLEAN
    /\ merge_key = "doi"
    /\ input = [type |-> "str", text |-> <<>>]
    /\ response = <<>> /\ vi = 1
    /\ response_pass \in SplitMaps
    /\ articles \in SeqsUpTo(SplitArticles, MaxBatch)
    /\ si = 1 /\ articles_pass = <<>> /\ articles_fail = <<>>
    /\ files = {} /\ pc = "split" /\ exc = NotRaised
    /\ JsonIdle
    /\ DecIdle
    /\ ExtIdle

NextSplit == SplitStep \/ SaveFiles

SpecSplit == InitSplit /\ [][NextSplit]_vars

\* ------------------------------------------------------------------------
\* SpecJson: validate_json_response on a text, then on the text in a fence
\* ------------------------------------------------------------------------
InitJson ==
    /\ jin \in JsonInputs
    /\ jres = NotCalled /\ wkind = NoFence /\ wres = NotCalled
    /\ PipeIdle
    /\ DecIdle
    /\ ExtIdle

NextJson == JsonCall \/ JsonWrap

SpecJson == InitJson /\ [][NextJson]_vars

\* ------------------------------------------------------------------------
\* SpecDecision: validate_decision_response on a response map
\* ------------------------------------------------------------------------
NoDecision == <<>>

\* entries of a response map: null, a string, {}, a dict without reasoning,
\* and dicts with both keys whose decision is a str or a bool
DecisionEntries ==
    {Entry("null", {}, "None", NoDecision),
     Entry("str", {}, "None", NoDecision),
     Entry("dict", {}, "None", NoDecision),
     Entry("dict", {"decision"}, "str", <<"t", "r", "u", "e">>)}
    \cup {Entry("dict", {"decision", "reasoning"}, "str", s) :
            s \in {<<"t", "r", "u", "e">>,
                   <<"T", "R", "U", "E", ".">>,
                   <<" ", SQ, "F", "a", "l", "s", "e", SQ, " ">>,
                   <<"H", "i", "g", "h">>,
                   <<"u", "r", "g", "e", "n", "t">>,
                   <<>>}}
    \cup {Entry("dict", {"decision", "reasoning"}, "bool", <<"T", "r", "u", "e">>)}

InitDecision ==
    /\ stage \in {"screening", "priority"}
    /\ allow \in BOOLEAN
    /\ decisions \in SeqsUpTo(DecisionEntries, MaxDecisions)
    /\ di = 1 /\ dpass = EmptyMap /\ dfail = EmptyMap
    /\ dpc = "loop" /\ dexc = NoExc
    /\ dimpl \in {"utils", "common"}
    /\ merge_key = "doi"
    /\ input = [type |-> "str", text |-> <<>>]
    /\ response = <<>> /\ vi = 1 /\ response_pass = EmptyMap
    /\ articles = <<>> /\ si = 1 /\ articles_pass = <<>> /\ articles_fail = <<>>
    /\ files = {} /\ pc = "idle" /\ exc = NotRaised
    /\ JsonIdle
    /\ ExtIdle

NextDecision == DecisionStep \/ DecisionReturn

SpecDecision == InitDecision /\ [][NextDecision]_vars

\* ------------------------------------------------------------------------
\* SpecVocab: get_common_variations on a list of expected values, then the
\* lookup of a decision text in the returned dict (common/validation.py
\* validate_decision_response), or clean_response of a response model
\* (common/models.py), which builds the dict of its own vocabulary
\* ------------------------------------------------------------------------
MaxValues == 3

\* expected values: the stage vocabularies, a capitalized value that is a
\* case form of another one, a two-word value
VocabWords ==
    {<<"t", "r", "u", "e">>, <<"f", "a", "l", "s", "e">>,
     <<"l", "o", "w">>, <<"m", "e", "d", "i", "u", "m">>, <<"h", "i", "g", "h">>,
     <<"L", "o", "w">>, <<"s", "o", " ", "h", "i">>}

\* lists of distinct expected values
VocabLists ==
    {l \in SeqsUpTo(VocabWords, MaxValues) :
        \A i, j \in 1..Len(l) : i # j => l[i] # l[j]}

\* the spellings of v an LLM answers with: each case form, bare, in single
\* quotes, in double quotes, with a trailing period
SpelledVariants(v) ==
    UNION {{c, <<SQ>> \o c \o <<SQ>>, <<DQ>> \o c \o <<DQ>>, c \o <<DOT>>} :
             c \in {v, lower(v), upper(v), capitalize(v), title(v)}}

\* texts outside every variant set, and a variant with whitespace around it
OtherTexts ==
    {<<"u", "r", "g", "e", "n", "t">>, <<>>,
     <<" ", "t", "r", "u", "e", " ">>,
     <<SQ, "l", "o", "w", SQ, DOT>>}

RangeOf(l) == {l[i] : i \in 1..Len(l)}

\* validate_decision_response lines 251-254:
\* decision.strip().lower(), then decision_mappings[decision]
LookupDecision(mapping, s) ==
    LET k == lower(Strip(s))
    IN  IF k \in DOMAIN mapping
           THEN [called |-> TRUE, ok |-> TRUE, value |-> mapping[k]]
           ELSE [called |-> TRUE, ok |-> FALSE, value |-> <<>>]

\* the vocabulary a response model hands to get_common_variations
ModelVocabulary(model) ==
    IF model = "screening" THEN ScreeningValues
    ELSE << <<"h", "i", "g", "h">>, <<"m", "e", "d", "i", "u", "m">>,
            <<"l", "o", "w">> >>

\* pydantic's conversion of the strings "true" / "false" to a bool field,
\* in the printed form of the bool
PyBool(s) ==
    IF s = <<"t", "r", "u", "e">> THEN <<"T", "r", "u", "e">>
    ELSE <<"F", "a", "l", "s", "e">>

\* clean_response without the branch for a native bool
clean_response_NoBool(model, decision) ==
    IF decision.t # "str"
       THEN [called |-> TRUE, exc |-> "AttributeError", lookup |-> FALSE,
             ret |-> NoValue, field |-> NoValue]
    ELSE LET mapping == get_common_variations(ModelVocabulary(model))
             k == lower(decision.s)
         IN  IF k \notin DOMAIN mapping
                THEN [called |-> TRUE, exc |-> "KeyError", lookup |-> TRUE,
                      ret |-> NoValue, field |-> NoValue]
                ELSE [called |-> TRUE, exc |-> "none", lookup |-> TRUE,
                      ret |-> [t |-> "str", s |-> mapping[k]],
                      field |-> IF model = "screening"
                                   THEN [t |-> "bool", s |-> PyBool(mapping[k])]
                                   ELSE [t |-> "str", s |-> mapping[k]]]

\* ScreeningResponse.clean_response / PriorityResponse.clean_response:
\* ret is what the validator returns, field what the model then stores
clean_response(model, decision) ==
    IF model = "screening" /\ decision.t = "bool"
       THEN [called |-> TRUE, exc |-> "none", lookup |-> FALSE,
             ret |-> decision, field |-> decision]
    ELSE IF decision.t # "str"
       THEN [called |-> TRUE, exc |-> "AttributeError", lookup |-> FALSE,
             ret |-> NoValue, field |-> NoValue]
    ELSE LET mapping == get_common_variations(ModelVocabulary(model))
             k == lower(decision.s)
         IN  IF k \notin DOMAIN mapping
                THEN [called |-> TRUE, exc |-> "KeyError", lookup |-> TRUE,
                      ret |-> NoValue, field |-> NoValue]
                ELSE [called |-> TRUE, exc |-> "none", lookup |-> TRUE,
                      ret |-> [t |-> "str", s |-> mapping[k]],
                      field |-> IF model = "screening"
                                   THEN [t |-> "bool", s |-> PyBool(mapping[k])]
                                   ELSE [t |-> "str", s |-> mapping[k]]]

\* raw decisions handed to clean_response
CleanInputs ==
    {[t |-> "str", s |-> x] :
        x \in OtherTexts \cup UNION {SpelledVariants(v) :
                    v \in RangeOf(ScreeningValues) \cup RangeOf(PriorityValues)}}
    \cup {[t |-> "bool", s |-> <<"T", "r", "u", "e">>],
          [t |-> "bool", s |-> <<"F", "a", "l", "s", "e">>],
          NoValue}

\* d = get_common_variations(expected_values)
GetVariations ==
    /\ ~variations.called
    /\ ~cout.called
    /\ variations' = [called |-> TRUE, map |-> get_common_variations(values)]
    /\ UNCHANGED <<values, nin, nout>>
    /\ UNCHANGED modelVars
    /\ UNCHANGED <<pipeVars, jsonVars, decVars, metaVars, toolVars>>

\* one decision text looked up in the returned dict
Lookup ==
    /\ variations.called
    /\ ~nout.called
    /\ \E x \in OtherTexts \cup UNION {SpelledVariants(v) : v \in RangeOf(values)} :
          /\ nin' = x
          /\ nout' = LookupDecision(variations.map, x)
    /\ UNCHANGED <<values, variations>>
    /\ UNCHANGED modelVars
    /\ UNCHANGED <<pipeVars, jsonVars, decVars, metaVars, toolVars>>

\* model_validate runs the model's clean_response on the raw decision
CleanResponse ==
    /\ ~variations.called
    /\ ~cout.called
    /\ \E model \in {"screening", "priority"}, decision \in CleanInputs :
          /\ values = ModelVocabulary(model)
          /\ cmodel' = model
          /\ cin' = decision
          /\ cout' = clean_response(model, decision)
    /\ UNCHANGED vocVars
    /\ UNCHANGED <<pipeVars, jsonVars, decVars, metaVars, toolVars>>

InitVocab ==
    /\ values \in VocabLists
    /\ variations = NoVariations /\ nin = <<>> /\ nout = NoLookup
    /\ ModelIdle
    /\ MetaIdle
    /\ ToolIdle
    /\ PipeIdle
    /\ JsonIdle
    /\ DecIdle

NextVocab == GetVariations \/ Lookup \/ CleanResponse

SpecVocab == InitVocab /\ [][NextVocab]_vars

\* ------------------------------------------------------------------------
\* sanitize_text and validate_metadata_response (extract_metadata.py), with
\* handle_error of utils.py.  Field values are character sequences.
\* ------------------------------------------------------------------------
BS == "\\"
DOLLAR == "$"

\* sanitize_text line 33
special_characters == <<BS, DQ, SQ, DOLLAR>>

\* str.replace(char, "\\" + char)
RECURSIVE Replace(_, _)
Replace(text, char) ==
    IF text = <<>> THEN <<>>
    ELSE (IF Head(text) = char THEN <<BS, char>> ELSE <<Head(text)>>)
         \o Replace(Tail(text), char)

\* lines 35-36: the loop body for special_characters[i..]
RECURSIVE SanitizeFrom(_, _)
SanitizeFrom(text, i) ==
    IF i > Len(special_characters) THEN text
    ELSE SanitizeFrom(Replace(Strip(text), special_characters[i]), i + 1)

sanitize_text(text) == SanitizeFrom(text, 1)

Digits == {"0", "1", "2", "3", "4", "5", "6", "7", "8", "9"}

\* the character class [-._;()/:\w\[\]] (letters of the model's alphabet)
IsDoiChar(c) ==
    \/ c \in {"-", ".", "_", ";", "(", ")", "/", ":", "[", "]"}
    \/ c \in Digits
    \/ IsLetter(c)

\* re.match(r"^10\.\d{4,}/[-._;()/:\w\[\]]+$", doi): $ also matches before
\* one trailing newline
DoiPatternMatches(doi) ==
    LET n == Len(doi)
        body == IF n > 0 /\ doi[n] = "\n" THEN SubSeq(doi, 1, n - 1) ELSE doi
        m == Len(body)
    IN  \E k \in 4..m :
           /\ m >= k + 5
           /\ body[1] = "1" /\ body[2] = "0" /\ body[3] = "."
           /\ \A i \in 4..(k + 3) : body[i] \in Digits
           /\ body[k + 4] = "/"
           /\ \A i \in (k + 5)..m : IsDoiChar(body[i])

NullDoi == <<"N", "U", "L", "L">>

TStr(s) == [t |-> "str", s |-> s]

\* a response entry d: kind "null" | "str" | "dict"; for a dict the keys it
\* has, their values, and the metadata_error handle_error stored in it
MetaEntry(kind, has, ti, su, do) ==
    [kind |-> kind, has |-> has, title |-> ti, summary |-> su,
     doi |-> do, error |-> ""]

MetadataKeys == {"title", "summary", "doi"}

\* not d[field]: None or the empty string
Falsy(v) == v.t = "None" \/ v.s = <<>>

\* the outcome of one utils.handle_error call inside the loop
MetaReject(d, msg, allow_errors) ==
    LET h == utils_handle_error(d, msg, allow_errors)
    IN  IF h.err.exc # "none"
           THEN [to |-> "raise", d |-> d, err |-> h.err]
           ELSE [to |-> "fail", d |-> h.d, err |-> NoExc]

\* lines 115-127: the doi checks, d already holding the cleaned title and
\* summary; line 124 reads d["metadata_error"], a key the entry does not have
CheckDoi(d, allow_errors) ==
    IF Falsy(d.doi) THEN MetaReject(d, "DOI cannot be empty.", allow_errors)
    ELSE IF d.doi.s # NullDoi
        THEN IF ~DoiPatternMatches(d.doi.s)
                THEN [to |-> "raise", d |-> d,
                      err |-> [exc |-> "KeyError", msg |-> "metadata_error"]]
                ELSE [to |-> "pass", d |-> [d EXCEPT !.doi = TStr(Strip(d.doi.s))],
                      err |-> NoExc]
    ELSE [to |-> "pass", d |-> d, err |-> NoExc]

\* lines 107-113: the summary check, d already holding the cleaned title
CheckSummary(d, allow_errors) ==
    IF Falsy(d.summary) THEN MetaReject(d, "Summary cannot be empty.", allow_errors)
    ELSE CheckDoi([d EXCEPT !.summary = TStr(Strip(d.summary.s))], allow_errors)

\* the body of the loop without the check of the keys
ValidateEntry_NoKeyCheck(d, allow_errors) ==
    IF d.kind # "dict" \/ d.has = {}
       THEN MetaReject(d, "Empty or non-dict response.", allow_errors)
    ELSE IF Falsy(d.title)
       THEN MetaReject(d, "Title cannot be empty.", allow_errors)
    ELSE CheckSummary([d EXCEPT !.title = TStr(sanitize_text(Strip(d.title.s)))],
                      allow_errors)

\* lines 86-129: the body of the loop for one entry
ValidateEntry(d, allow_errors) ==
    IF d.kind # "dict" \/ d.has = {}
       THEN MetaReject(d, "Empty or non-dict response.", allow_errors)
    ELSE IF ~(MetadataKeys \subseteq d.has)
       THEN MetaReject(d, "Missing keys (title, summary, doi).", allow_errors)
    ELSE IF Falsy(d.title)
       THEN MetaReject(d, "Title cannot be empty.", allow_errors)
    ELSE CheckSummary([d EXCEPT !.title = TStr(sanitize_text(Strip(d.title.s)))],
                      allow_errors)

\* lines 85-129: one iteration of the loop over metadata.items()
MetadataStep ==
    /\ mpc = "loop"
    /\ mi <= Len(metadata)
    /\ LET r == ValidateEntry(metadata[mi], allow) IN
          CASE r.to = "pass" ->
                  /\ mpass' = DictSet(mpass, mi, r.d)
                  /\ mi' = mi + 1
                  /\ UNCHANGED <<mfail, mpc, mexc>>
            [] r.to = "fail" ->
                  /\ mfail' = DictSet(mfail, mi, r.d)
                  /\ mi' = mi + 1
                  /\ UNCHANGED <<mpass, mpc, mexc>>
            [] OTHER ->
                  /\ mpc' = "raised"
                  /\ mexc' = r.err
                  /\ UNCHANGED <<mpass, mfail, mi>>
    /\ UNCHANGED metadata
    /\ UNCHANGED <<pipeVars, jsonVars, decVars, vocVars, modelVars, toolVars>>

\* line 131: return articles_pass, articles_fail
MetadataReturn ==
    /\ mpc = "loop"
    /\ mi > Len(metadata)
    /\ mpc' = "returned"
    /\ UNCHANGED <<metadata, mi, mpass, mfail, mexc>>
    /\ UNCHANGED <<pipeVars, jsonVars, decVars, vocVars, modelVars, toolVars>>

MaxEntries == 2

GoodDoi == <<"1", "0", ".", "1", "2", "3", "4", "/", "a">>

\* field values of a response entry
TitleValues ==
    {TStr(<<"T">>), TStr(<<" ", "T", " ">>), TStr(<<" ">>), TStr(<<>>), NoValue,
     TStr(<<"a", SQ, "s", " ", BS, DOLLAR, DQ>>)}
SummaryValues ==
    {TStr(<<"S">>), TStr(<<" ", "\n">>), TStr(<<>>),
     TStr(<<" ", "a", DOLLAR, "s", " ">>)}
DoiValues ==
    {TStr(GoodDoi), TStr(NullDoi), TStr(<<>>), NoValue,
     TStr(<<"n", "o", "t", "-", "a", "-", "d", "o", "i">>),
     TStr(GoodDoi \o <<"\n">>),
     TStr(<<" ">> \o GoodDoi),
     TStr(<<"1", "0", ".", "1", "2", "/", "a">>),
     TStr(<<"1", "0", ".", "1", "2", "3", "4", "/", "a", " ", "a">>)}

\* entries of a response map: null, a string, {}, dicts with a key missing,
\* and complete dicts that differ from a valid one in one field
MetadataEntries ==
    {MetaEntry("null", {}, NoValue, NoValue, NoValue),
     MetaEntry("str", {}, NoValue, NoValue, NoValue),
     MetaEntry("dict", {}, NoValue, NoValue, NoValue),
     MetaEntry("dict", {"title", "summary"}, TStr(<<"T">>), TStr(<<"S">>), NoValue),
     MetaEntry("dict", {"doi"}, NoValue, NoValue, TStr(GoodDoi))}
    \cup {MetaEntry("dict", MetadataKeys, t, TStr(<<"S">>), TStr(GoodDoi)) :
            t \in TitleValues}
    \cup {MetaEntry("dict", MetadataKeys, TStr(<<"T">>), x, TStr(NullDoi)) :
            x \in SummaryValues}
    \cup {MetaEntry("dict", MetadataKeys, TStr(<<"T">>), TStr(<<"S">>), x) :
            x \in DoiValues}

\* SpecMetadata: validate_metadata_response on a response map
InitMetadata ==
    /\ stage = "metadata"
    /\ allow \in BOOLEAN
    /\ metadata \in SeqsUpTo(MetadataEntries, MaxEntries)
    /\ mi = 1 /\ mpass = EmptyMap /\ mfail = EmptyMap
    /\ mpc = "loop" /\ mexc = NoExc
    /\ merge_key = "doi"
    /\ input = [type |-> "str", text |-> <<>>]
    /\ response = <<>> /\ vi = 1 /\ response_pass = EmptyMap
    /\ articles = <<>> /\ si = 1 /\ articles_pass = <<>> /\ articles_fail = <<>>
    /\ files = {} /\ pc = "idle" /\ exc = NotRaised
    /\ JsonIdle
    /\ DecIdle
    /\ VocIdle
    /\ ModelIdle
    /\ ToolIdle

NextMetadata == MetadataStep \/ MetadataReturn

SpecMetadata == InitMetadata /\ [][NextMetadata]_vars

\* SpecValidators: one run of either stage validator
InitValidators == InitDecision \/ InitMetadata

NextValidators == DecisionStep \/ DecisionReturn \/ MetadataStep \/ MetadataReturn

SpecValidators == InitValidators /\ [][NextValidators]_vars

\* ------------------------------------------------------------------------
\* insert_article (zotero_insert_article.py).  The articles of the loaded
\* file are their positions 1..zarticles; Zotero answers each create_items
\* call with a response of its choice.
\* ------------------------------------------------------------------------
MaxArticles == 101

\* lines 223, 240: the batch size
BatchSize == 50

\* what create_items may answer for a batch: the keys of the response and
\* the lengths of its "successful" and "failed" entries
ZoteroResponses(items) ==
    {[keys |-> {"successful", "failed"}, successful |-> Len(items), failed |-> 0],
     [keys |-> {"successful", "failed"}, successful |-> Len(items) - 1, failed |-> 1],
     [keys |-> {"failed"}, successful |-> 0, failed |-> 0]}

\* the asserts on the keys alone
validate_response_KeysOnly(items, resp) ==
    IF "successful" \notin resp.keys THEN "AssertionError"
    ELSE IF "failed" \notin resp.keys THEN "AssertionError"
    ELSE "none"

\* lines 129-148: the four asserts, "none" when all of them pass
validate_response(items, resp) ==
    IF "successful" \notin resp.keys THEN "AssertionError"
    ELSE IF resp.successful # Len(items) THEN "AssertionError"
    ELSE IF "failed" \notin resp.keys THEN "AssertionError"
    ELSE IF resp.failed # 0 THEN "AssertionError"
    ELSE "none"

\* lines 151-174: create_items, then validate_response; the keys returned
\* for the batch when return_keys is set
insert_batch(items, resp, return_keys) ==
    [exc |-> validate_response(items, resp),
     keys |-> IF return_keys THEN {items[j] : j \in 1..Len(items)} ELSE {}]

ZoteroCall(kind, items, resp) ==
    [kind |-> kind, items |-> items, resp |-> resp]

\* a flush only at the last article
FlushDue_OnlyLast(c, i, n) == c > BatchSize \/ i = n - 1

\* lines 223, 240: the batch is full or the article is the last one
FlushDue(c, i, n) == c = BatchSize \/ i = n - 1

\* lines 214-227: one iteration of the loop over the articles
ArticleIter ==
    /\ zpc = "running"
    /\ zi <= zarticles
    /\ LET batch == Append(articles_to_insert, zi)
           c == counter + 1
       IN  IF batch # <<>> /\ FlushDue(c, zi - 1, zarticles)
              THEN \E resp \in ZoteroResponses(batch) :
                     LET r == insert_batch(batch, resp, TRUE)
                     IN  /\ zcalls' = Append(zcalls, ZoteroCall("article", batch, resp))
                         /\ IF r.exc # "none"
                               THEN /\ zpc' = "raised" /\ zexc' = r.exc
                                    /\ articles_to_insert' = batch
                                    /\ counter' = c
                                    /\ UNCHANGED <<zi, zotero_keys>>
                               ELSE /\ zotero_keys' = zotero_keys \cup r.keys
                                    /\ articles_to_insert' = <<>>
                                    /\ counter' = 0
                                    /\ zi' = zi + 1
                                    /\ UNCHANGED <<zpc, zexc>>
              ELSE /\ articles_to_insert' = batch
                   /\ counter' = c
                   /\ zi' = zi + 1
                   /\ UNCHANGED <<zotero_keys, zcalls, zpc, zexc>>
    /\ UNCHANGED <<zarticles, notes_to_insert>>
    /\ UNCHANGED <<pipeVars, jsonVars, decVars, vocVars, modelVars, metaVars>>
    /\ UNCHANGED <<remVars, prioVars>>

\* lines 231-243: one iteration of the loop over the articles for their
\* notes; zotero_keys[item.doi] raises KeyError for an article without key
NoteIter ==
    /\ zpc = "running"
    /\ zi > zarticles /\ zi <= 2 * zarticles
    /\ LET i == zi - zarticles
           batch == Append(notes_to_insert, i)
           c == counter + 1
       IN  IF i \notin zotero_keys
              THEN /\ zpc' = "raised" /\ zexc' = "KeyError"
                   /\ UNCHANGED <<zi, notes_to_insert, counter, zcalls>>
           ELSE IF batch # <<>> /\ FlushDue(c, i - 1, zarticles)
              THEN \E resp \in ZoteroResponses(batch) :
                     LET r == insert_batch(batch, resp, FALSE)
                     IN  /\ zcalls' = Append(zcalls, ZoteroCall("note", batch, resp))
                         /\ IF r.exc # "none"
                               THEN /\ zpc' = "raised" /\ zexc' = r.exc
                                    /\ notes_to_insert' = batch
                                    /\ counter' = c
                                    /\ UNCHANGED zi
                               ELSE /\ notes_to_insert' = <<>>
                                    /\ counter' = 0
                                    /\ zi' = zi + 1
                                    /\ UNCHANGED <<zpc, zexc>>
              ELSE /\ notes_to_insert' = batch
                   /\ counter' = c
                   /\ zi' = zi + 1
                   /\ UNCHANGED <<zcalls, zpc, zexc>>
    /\ UNCHANGED <<zarticles, articles_to_insert, zotero_keys>>
    /\ UNCHANGED <<pipeVars, jsonVars, decVars, vocVars, modelVars, metaVars>>
    /\ UNCHANGED <<remVars, prioVars>>

\* lines 245-247: the notes left over after the loop, then the return
InsertReturn ==
    /\ zpc = "running"
    /\ zi > 2 * zarticles
    /\ IF notes_to_insert # <<>>
          THEN \E resp \in ZoteroResponses(notes_to_insert) :
                 LET r == insert_batch(notes_to_insert, resp, FALSE)
                 IN  /\ zcalls' = Append(zcalls,
                                         ZoteroCall("note", notes_to_insert, resp))
                     /\ zpc' = IF r.exc # "none" THEN "raised" ELSE "done"
                     /\ zexc' = r.exc
          ELSE /\ zpc' = "done"
               /\ UNCHANGED <<zcalls, zexc>>
    /\ UNCHANGED <<zarticles, zi, articles_to_insert, notes_to_insert, counter,
                   zotero_keys>>
    /\ UNCHANGED <<pipeVars, jsonVars, decVars, vocVars, modelVars, metaVars>>
    /\ UNCHANGED <<remVars, prioVars>>

\* SpecInsert: insert_article on a file of any number of articles
InitInsert ==
    /\ zarticles \in 0..MaxArticles
    /\ zi = 1 /\ articles_to_insert = <<>> /\ notes_to_insert = <<>>
    /\ counter = 0 /\ zotero_keys = {} /\ zcalls = <<>>
    /\ zpc = "running" /\ zexc = "none"
    /\ PipeIdle
    /\ JsonIdle
    /\ DecIdle
    /\ VocIdle
    /\ ModelIdle
    /\ MetaIdle
    /\ RemIdle
    /\ PrioIdle

NextInsert == ArticleIter \/ NoteIter \/ InsertReturn

SpecInsert == InitInsert /\ [][NextInsert]_vars

\* ------------------------------------------------------------------------
\* remove_processed (zotero_remove_processed.py).  An article is its url;
\* a Zotero item is its itemType and its url.
\* ------------------------------------------------------------------------
MaxZoteroItems == 2

ItemTypes == {"journalArticle", "note"}

ZoteroItem(type, url) == [itemType |-> type, url |-> url]

\* lines 55-57: the urls of the journal articles of the collection
ProcessedUrls(items) ==
    {items[j].url : j \in {j \in 1..Len(items) : items[j].itemType = "journalArticle"}}

\* lines 59-67: the articles whose str(url) is not among them
articles_to_process(arts, urls) ==
    SelectSeq(arts, LAMBDA item : PyStr(item) \notin urls)

\* lines 52-71: the whole call; the file, when written, holds
\* pprint(articles)
RemoveProcessed ==
    /\ rpc = "call"
    /\ LET urls == ProcessedUrls(ritems)
       IN  unprocessed' = IF articles_to_process(rarticles, urls) # <<>>
                             THEN [written |-> TRUE, content |-> rarticles]
                             ELSE NoFile
    /\ rpc' = "done"
    /\ UNCHANGED <<rarticles, ritems>>
    /\ UNCHANGED <<pipeVars, jsonVars, decVars, vocVars, modelVars, metaVars>>
    /\ UNCHANGED <<zotVars, prioVars>>

\* SpecRemove: remove_processed on any file and any collection
RemoveUrls == {"http://u1/", "http://u2/", "http://u3/"}

InitRemove ==
    /\ rarticles \in SeqsUpTo({HttpUrl(u) : u \in RemoveUrls}, MaxBatch)
    /\ ritems \in SeqsUpTo({ZoteroItem(t, Str(u)) : t \in ItemTypes,
                                                   u \in {"http://u1/", "http://u2/"}},
                           MaxZoteroItems)
    /\ unprocessed = NoFile /\ rpc = "call"
    /\ PipeIdle
    /\ JsonIdle
    /\ DecIdle
    /\ VocIdle
    /\ ModelIdle
    /\ MetaIdle
    /\ ZotIdle
    /\ PrioIdle

NextRemove == RemoveProcessed

SpecRemove == InitRemove /\ [][NextRemove]_vars

\* ------------------------------------------------------------------------
\* The screening decision from its normalization to the filter of
\* prioritize_articles (prioritize_articles.py line 156).  An article is its
\* doi and its screening decision.
\* ------------------------------------------------------------------------
\* the decision the screening stage stores for a raw decision text:
\* utils.validate_decision_response (lines 239-261) stores
\* decision_mappings[decision.strip().lower()], a str, and utils.split_by_qc
\* (line 94) copies it to screening_decision; ScreeningResponse (models.py
\* lines 84-94) stores the bool made from the mapped value
screening_decision(producer, text) ==
    IF producer = "utils"
       THEN [t |-> "str",
             s |-> LookupDecision(get_common_variations(ScreeningValues), text).value]
       ELSE clean_response("screening", [t |-> "str", s |-> text]).field

\* the truth value Python gives a loaded JSON value
truthy(v) ==
    CASE v.t = "bool" -> v.s = <<"T", "r", "u", "e">>
      [] v.t = "str" -> v.s # <<>>
      [] OTHER -> FALSE

\* the screening stage: every article gets its normalized decision
ScreeningMerge ==
    /\ ppc = "screen"
    /\ pscreened' = [j \in 1..Len(particles) |->
                        [doi |-> particles[j].doi,
                         screening_decision |->
                             screening_decision(pproducer, particles[j].decision)]]
    /\ ppc' = "filter"
    /\ UNCHANGED <<particles, pproducer, pbatch>>
    /\ UNCHANGED <<pipeVars, jsonVars, decVars, vocVars, modelVars, metaVars>>
    /\ UNCHANGED <<zotVars, remVars>>

\* prioritize_articles line 156:
\* [a for a in articles if a["doi"] != "NULL" and a["screening_decision"]]
PriorityFilter ==
    /\ ppc = "filter"
    /\ pbatch' = SelectSeq(pscreened,
                           LAMBDA a : a.doi # Str("NULL") /\ truthy(a.screening_decision))
    /\ ppc' = "done"
    /\ UNCHANGED <<particles, pproducer, pscreened>>
    /\ UNCHANGED <<pipeVars, jsonVars, decVars, vocVars, modelVars, metaVars>>
    /\ UNCHANGED <<zotVars, remVars>>

\* SpecPrioritize: a batch of screened articles; the decision texts are
\* variants of "true" and "false"
DecisionTexts ==
    {<<"t", "r", "u", "e">>, <<"T", "r", "u", "e">>, <<"f", "a", "l", "s", "e">>,
     <<"F", "A", "L", "S", "E">>, <<"F", "a", "l", "s", "e", ".">>}

InitPrioritize ==
    /\ particles \in SeqsUpTo({[doi |-> d, decision |-> x] :
                                  d \in {Str("NULL"), Str("10.1234/a")},
                                  x \in DecisionTexts}, MaxBatch)
    /\ pproducer \in {"utils", "models"}
    /\ pscreened = <<>> /\ pbatch = <<>> /\ ppc = "screen"
    /\ PipeIdle
    /\ JsonIdle
    /\ DecIdle
    /\ VocIdle
    /\ ModelIdle
    /\ MetaIdle
    /\ ZotIdle
    /\ RemIdle

NextPrioritize == ScreeningMerge \/ PriorityFilter

SpecPrioritize == InitPrioritize /\ [][NextPrioritize]_vars

\* ------------------------------------------------------------------------
\* Properties
\* ------------------------------------------------------------------------
Count(x, seq) == Cardinality({j \in 1..Len(seq) : seq[j] = x})
InSeq(x, seq) == \E j \in 1..Len(seq) : seq[j] = x

\* C1: partition totality.  When split_by_qc has returned with errors
\* allowed, len(articles_pass) + len(articles_fail) is the batch length and
\* every article of the batch occurs exactly once across the two lists.
C1_PartitionTotality ==
    (pc = "done" /\ allow) =>
        /\ Len(articles_pass) + Len(articles_fail) = Len(articles)
        /\ \A i \in 1..Len(articles) :
              Count(i, articles_pass) + Count(i, articles_fail) = 1

\* the article's key is among the validated records and copying one of the
\* record's fields raises KeyError (read) or ValidationError (assignment)
CopyRaises(i) ==
    LET a == articles[i]
        k == a.attrs[merge_key]
    IN  /\ k \in DOMAIN response_pass
        /\ \E j \in 1..Len(response_pass[k].model_fields) :
              \/ response_pass[k].model_fields[j] \in response_pass[k].keyerr
              \/ response_pass[k].model_fields[j] \in a.noset

\* C2: with errors allowed, an article whose field copy raised ends in
\* articles_fail and is not in articles_pass.
C2_CopyErrorFailsOnly ==
    (pc = "done" /\ allow) =>
        \A i \in 1..Len(articles) :
            CopyRaises(i) => InSeq(i, articles_fail) /\ ~InSeq(i, articles_pass)

\* a response object fails validation, or an article's merge key is missing
\* from the validated records
StrictError ==
    \/ \E i \in 1..Len(response) : ModelValidateRaises(stage, Obj(response[i]))
    \/ /\ pc \in {"split", "done"}
       /\ \E i \in 1..Len(articles) :
             articles[i].attrs[merge_key] \notin DOMAIN response_pass

\* C3: strict mode fail-fast.  With allow_qc_errors = False, a stage run with
\* a failing response object or a missing merge key ends by raising
\* ValidationError, returns no partition and writes no file.
C3_StrictFailFast ==
    (~allow /\ pc \in {"done", "raised"} /\ exc.at # "json" /\ StrictError) =>
        /\ pc = "raised"
        /\ exc.exc = "ValidationError"
        /\ files = {}

\* ------------------------------------------------------------------------
\* the response models of common/models.py
\* ScreeningResponse.model_validate accepts the object: doi, decision and
\* reasoning present; clean_response takes a bool as it is and looks up the
\* lower() of a string in get_common_variations(["true", "false"])
ScreeningValid(item) ==
    /\ {"doi", "decision", "reasoning"} \subseteq DOMAIN item
    /\ item.doi.t = "str"
    /\ item.reasoning.t = "str"
    /\ \/ item.decision.t = "bool"
       \/ /\ item.decision.t = "str"
          /\ lower(item.decision.v) \in DOMAIN get_common_variations(ScreeningValues)

\* PriorityResponse.model_validate accepts the object: clean_response looks
\* up decision.lower() in get_common_variations(["high", "medium", "low"])
PriorityValid(item) ==
    /\ {"doi", "decision", "reasoning"} \subseteq DOMAIN item
    /\ item.doi.t = "str"
    /\ item.reasoning.t = "str"
    /\ item.decision.t = "str"
    /\ lower(item.decision.v) \in
          DOMAIN get_common_variations(<<PriorityValues[3], PriorityValues[2],
                                         PriorityValues[1]>>)

\* the object is valid for the stage's response model
SchemaValid(st, item) ==
    CASE st = "metadata" -> MetadataValid(item)
      [] st = "screening" -> ScreeningValid(item)
      [] OTHER -> PriorityValid(item)

\* the identity string of a response object / of an article
ItemKey(item) == IF merge_key \in DOMAIN item THEN item[merge_key].v ELSE ""
ArticleKey(a) == a.attrs[merge_key].v

ValidIdx == {i \in 1..Len(response) : SchemaValid(stage, Obj(response[i]))}
ValidKeys == {ItemKey(Obj(response[i])) : i \in ValidIdx}

\* N+1 articles with distinct keys, N valid objects for N of them and one
\* malformed object
OneMalformedAmongValid ==
    /\ allow
    /\ Len(response) >= 2
    /\ Len(articles) = Len(response)
    /\ Cardinality(ValidIdx) = Len(response) - 1
    /\ Cardinality(ValidKeys) = Len(response) - 1
    /\ Cardinality({ArticleKey(articles[i]) : i \in 1..Len(articles)}) = Len(articles)
    /\ ValidKeys \subseteq {ArticleKey(articles[i]) : i \in 1..Len(articles)}

Positions(n) == [i \in 1..n |-> i]
IsMatched(i) == ArticleKey(articles[i]) \in ValidKeys
IsUnmatched(i) == ~IsMatched(i)

\* C4: tolerant mode containment.  With allow_qc_errors = True, N valid
\* objects and one malformed object for a batch of N+1 articles, the run
\* completes with the N matching articles in articles_pass and the one
\* remaining article in articles_fail.
C4_TolerantContainment ==
    (OneMalformedAmongValid /\ pc \in {"done", "raised"}) =>
        /\ pc = "done"
        /\ articles_pass = SelectSeq(Positions(Len(articles)), IsMatched)
        /\ articles_fail = SelectSeq(Positions(Len(articles)), IsUnmatched)

\* C5: with errors allowed, every article in articles_fail carries the
\* stage's error annotation.
C5_FailedAreAnnotated ==
    (allow /\ pc \in {"split", "done"}) =>
        \A j \in 1..Len(articles_fail) : articles[articles_fail[j]].error # ""

\* C6: with allow_errors = True, validate_decision_response never raises;
\* every entry that is empty or no dict, lacks a key or has a decision
\* outside the vocabulary is in the fail map with an error, once the loop
\* has returned.
C6_TolerantNeverRaises ==
    allow =>
        /\ dpc # "raised"
        /\ dpc = "returned" =>
              \A i \in 1..Len(decisions) :
                  DecisionError(decisions[i], stage) # "" =>
                      i \in DOMAIN dfail /\ dfail[i].error # ""

\* ------------------------------------------------------------------------
\* json.loads of the text left after fence stripping fails, gives no list,
\* or gives a list with an element that is no object
ShapeError(inp) ==
    LET r == JsonLoads(StripFence(inp.text)) IN
    \/ ~r.ok
    \/ r.kind # "list"
    \/ \E i \in 1..Len(r.items) : r.items[i] \notin ObjTokens

\* C7: shape errors are always fatal.  Once validate_llm_response has gone
\* past validate_json_response on a response that is no valid JSON, no
\* list, or has a non-object element, the run has raised there, whatever
\* allow_qc_errors is: no object was validated, nothing was split or written.
C7_ShapeErrorsFatal ==
    (ShapeError(input) /\ pc \notin {"json", "idle"}) =>
        /\ pc = "raised"
        /\ exc.at = "json"
        /\ exc.exc # "none"
        /\ response_pass = EmptyMap
        /\ articles_pass = <<>> /\ articles_fail = <<>>
        /\ files = {}

\* a tolerant run rejected a list holding a valid object and a non-object
C7_Witness ==
    /\ pc = "raised"
    /\ allow
    /\ stage = "metadata"
    /\ exc.at = "json"
    /\ InSeq("O1", input.text)
    /\ InSeq("S", input.text)
    /\ JsonLoads(StripFence(input.text)).kind = "list"

\* the documented reason of each rejection
DocumentedReason(inp) ==
    IF inp.type # "str" \/ inp.text = <<>> THEN "Empty or non-string response."
    ELSE IF ~JsonLoads(StripFence(inp.text)).ok THEN "Response is not valid JSON."
    ELSE IF JsonLoads(StripFence(inp.text)).kind # "list" THEN "Response should be a list."
    ELSE "Each item in the response list should be a dictionary."

\* C8: every rejection by validate_json_response is a ValidationError that
\* carries the documented reason.
C8_RejectionIsValidationError ==
    (jres.called /\ jres.exc # "none") =>
        /\ jres.exc = "ValidationError"
        /\ jres.msg = DocumentedReason(jin)

\* C9 as claimed: for every text the function parses to a list L, the text
\* wrapped in a json fence, a plain fence or single backticks parses to L.
C9_AnyParsedTextRoundTrips ==
    (jres.called /\ jres.exc = "none" /\ wkind # NoFence) =>
        /\ wres.exc = "none"
        /\ wres.items = jres.items

\* the text both starts and ends with a backtick
IsFenced(t) == StartsWith(t, Fence1) /\ EndsWith(t, Fence1)

\* C9: fence stripping round trip.  For every text that is itself a JSON
\* list of objects (not fenced already), the text wrapped in a json fence,
\* a plain fence or single backticks parses to the same list: one layer of
\* fencing is removed.
C9_FenceRoundTrip ==
    (jres.called /\ jres.exc = "none" /\ ~IsFenced(jin.text) /\ wkind # NoFence) =>
        /\ wres.called
        /\ wres.exc = "none"
        /\ wres.items = jres.items

\* a non-empty list was parsed from its json-fenced text
C9_Witness ==
    /\ jres.called /\ jres.exc = "none"
    /\ ~IsFenced(jin.text)
    /\ Len(jres.items) = MaxItems
    /\ wkind = [fence |-> "json", pad |-> <<"\n">>]
    /\ wres.items = jres.items

\* explanatory text, then a json-fenced list of objects
ProseThenFence(t) ==
    \E l \in ItemLists :
        /\ \A i \in 1..Len(l) : l[i] \in ObjTokens
        /\ t = Prose \o Wrap("json", <<"\n">>, ListText(l, <<>>))

\* C10: a response with explanatory text before a json fenced block is
\* accepted and the list inside the fence is returned.
C10_TextBeforeFenceAccepted ==
    (jres.called /\ jin.type = "str" /\ ProseThenFence(jin.text)) =>
        /\ jres.exc = "none"
        /\ Prose \o Wrap("json", <<"\n">>, ListText(jres.items, <<>>)) = jin.text


\* two different expected values that share a spelling
SharedVariant(l) ==
    \E v, w \in RangeOf(l) : v # w /\ SpelledVariants(v) \cap SpelledVariants(w) # {}

\* C11 as stated: for every list of expected values, the dict just returned by
\* get_common_variations holds, for each value v, every case form of v bare,
\* single-quoted, double-quoted and with a trailing period, each mapped to
\* v; it is empty for the empty list and each of its values is one of the
\* expected values.
C11_EveryVariantMapsToItsValue ==
    (variations.called /\ ~nout.called) =>
        /\ (values = <<>> => DOMAIN variations.map = {})
        /\ \A x \in DOMAIN variations.map : variations.map[x] \in RangeOf(values)
        /\ \A v \in RangeOf(values) : \A x \in SpelledVariants(v) :
              x \in DOMAIN variations.map /\ variations.map[x] = v

\* C11 amended: the same, for the lists in which no two different expected
\* values share a spelling; for any list the dict holds every spelling, is
\* empty for the empty list and maps only to expected values.
C11_VariantsMapToValue ==
    (variations.called /\ ~nout.called) =>
        /\ (values = <<>> => DOMAIN variations.map = {})
        /\ \A x \in DOMAIN variations.map : variations.map[x] \in RangeOf(values)
        /\ \A v \in RangeOf(values) : SpelledVariants(v) \subseteq DOMAIN variations.map
        /\ ~SharedVariant(values) =>
              \A v \in RangeOf(values) : \A x \in SpelledVariants(v) :
                  variations.map[x] = v

C11_Witness ==
    /\ variations.called
    /\ values = PriorityValues
    /\ variations.map[<<DQ, "H", "I", "G", "H", DQ>>] = <<"h", "i", "g", "h">>
    /\ variations.map[<<"M", "e", "d", "i", "u", "m", DOT>>]
           = <<"m", "e", "d", "i", "u", "m">>


\* the lists the stages hand to get_common_variations
StageVocabularies == {ScreeningValues, PriorityValues, ModelVocabulary("priority")}

\* C12: idempotent normalization.  For the screening and the priority
\* vocabulary, the lookup of any spelling of a canonical value v (a case
\* form, bare, quoted or with a trailing period; v itself included) succeeds
\* and yields v, which is also what the lookup of v yields; the same holds
\* for what clean_response of the response models returns.
C12_NormalizationIdempotent ==
    /\ (nout.called /\ values \in StageVocabularies) =>
          \A v \in RangeOf(values) :
              nin \in SpelledVariants(v) =>
                  /\ nout.ok
                  /\ nout.value = v
                  /\ nout = LookupDecision(variations.map, v)
    /\ (cout.called /\ cin.t = "str") =>
          \A v \in RangeOf(ModelVocabulary(cmodel)) :
              cin.s \in SpelledVariants(v) =>
                  /\ cout.exc = "none"
                  /\ cout.ret = [t |-> "str", s |-> v]
                  /\ cout.ret = clean_response(cmodel, [t |-> "str", s |-> v]).ret

C12_Witness ==
    /\ nout.called
    /\ values = ScreeningValues
    /\ nin = <<SQ, "T", "R", "U", "E", SQ>>
    /\ nout.value = <<"t", "r", "u", "e">>


\* the canonical set of a decision stage
CanonicalSet(st) ==
    IF st = "screening" THEN RangeOf(ScreeningValues) ELSE RangeOf(PriorityValues)

\* entry d has both keys and a non-empty decision that is no key of the
\* stage's table
Unmapped(d, st) ==
    /\ d.kind = "dict"
    /\ {"decision", "reasoning"} \subseteq d.has
    /\ d.decision.s # <<>>
    /\ lower(Strip(d.decision.s)) \notin DOMAIN decision_mappings(st)

\* C13: closed decision vocabulary.  Every record in the pass map of
\* validate_decision_response has a decision of the stage's canonical set;
\* an entry whose decision is outside the variant set is not in the pass
\* map: it is in the fail map with the invalid-value error, or that error
\* was raised at it.
C13_ClosedVocabulary ==
    /\ \A k \in DOMAIN dpass : dpass[k].decision.s \in CanonicalSet(stage)
    /\ \A i \in 1..Len(decisions) :
          Unmapped(decisions[i], stage) =>
              /\ i \notin DOMAIN dpass
              /\ i < di => /\ i \in DOMAIN dfail
                           /\ dfail[i].error = "Invalid priority value."
              /\ (i = di /\ dpc = "raised") =>
                    dexc = [exc |-> "ValidationError",
                            msg |-> "Invalid priority value."]


C15_StageSchemaValidated ==
    (~allow /\ response # <<>> /\ ValidIdx = 1..Len(response)) =>
        /\ ~(pc = "raised" /\ exc.at = "validate")
        /\ pc \in {"split", "done"} =>
              {k.v : k \in DOMAIN response_pass} = ValidKeys


\* a non-empty object without one of the required keys
LacksKey(d, keys) == d.kind = "dict" /\ d.has # {} /\ ~(keys \subseteq d.has)

MissingKeysError(msg) == [exc |-> "ValidationError", msg |-> msg]

C17_NullDoiAccepted ==
    (stage = "metadata" /\ pc \in {"validate", "split", "done", "raised"}) =>
        \A i \in 1..Len(response) :
            response[i] = "N1" =>
                /\ ~(i = vi /\ pc = "raised" /\ exc.at = "validate")
                /\ i < vi =>
                      \E k \in DOMAIN response_pass :
                          response_pass[k].val.doi = Str("NULL")


\* re.match(r"^10\.\d{4,}/\S+$", doi), the pattern of the specification
DoiMatchesNonSpace(doi) ==
    LET n == Len(doi)
        body == IF n > 0 /\ doi[n] = "\n" THEN SubSeq(doi, 1, n - 1) ELSE doi
        m == Len(body)
    IN  \E k \in 4..m :
           /\ m >= k + 5
           /\ body[1] = "1" /\ body[2] = "0" /\ body[3] = "."
           /\ \A i \in 4..(k + 3) : body[i] \in Digits
           /\ body[k + 4] = "/"
           /\ \A i \in (k + 5)..m : body[i] \notin WS

\* a complete object with a title and a summary whose doi is neither "NULL"
\* nor a match of the pattern
InvalidDoi(d) ==
    /\ d.kind = "dict"
    /\ MetadataKeys \subseteq d.has
    /\ ~Falsy(d.title)
    /\ ~Falsy(d.summary)
    /\ d.doi.t = "None" \/ (d.doi.s # NullDoi /\ ~DoiMatchesNonSpace(d.doi.s))

\* C18: an object with an invalid doi is rejected for that object only.  It
\* is never in the pass map; in tolerant mode the call does not raise at it
\* and it is in the fail map with a metadata error once the loop is past it;
\* in strict mode the exception raised at it is a ValidationError.
C18_InvalidDoiRejected ==
    \A i \in 1..Len(metadata) :
        InvalidDoi(metadata[i]) =>
            /\ i \notin DOMAIN mpass
            /\ allow =>
                  /\ ~(i = mi /\ mpc = "raised")
                  /\ i < mi => (i \in DOMAIN mfail /\ mfail[i].error # "")
            /\ (~allow /\ i = mi /\ mpc = "raised") => mexc.exc = "ValidationError"


\* a string value that is empty after trimming
BlankStr(v) == v.t = "str" /\ Strip(v.s) = <<>>

\* C19: a title or summary that is empty after trimming (whitespace only
\* included) never reaches the pass map, and every title and summary in
\* the pass map is non-empty.
C19_BlankFieldsRejected ==
    /\ \A k \in DOMAIN mpass : mpass[k].title.s # <<>> /\ mpass[k].summary.s # <<>>
    /\ \A i \in 1..Len(metadata) :
          (/\ metadata[i].kind = "dict"
           /\ MetadataKeys \subseteq metadata[i].has
           /\ BlankStr(metadata[i].title) \/ BlankStr(metadata[i].summary))
              => i \notin DOMAIN mpass


\* text with one backslash put in front of every backslash, double quote,
\* single quote and dollar sign, everything else unchanged and in order
RECURSIVE EscapeAll(_)
EscapeAll(text) ==
    IF text = <<>> THEN <<>>
    ELSE (IF Head(text) \in {BS, DQ, SQ, DOLLAR} THEN <<BS, Head(text)>>
          ELSE <<Head(text)>>)
         \o EscapeAll(Tail(text))

\* C20: sanitize_text returns the trimmed input with exactly one backslash
\* added in front of every backslash, quote and dollar sign, and the title
\* and the summary of every record in the pass map are stored in that form.
C20_FieldsStoredSanitized ==
    \A k \in DOMAIN mpass :
        /\ sanitize_text(metadata[k].title.s) = EscapeAll(Strip(metadata[k].title.s))
        /\ mpass[k].title.s = EscapeAll(Strip(metadata[k].title.s))
        /\ mpass[k].summary.s = EscapeAll(Strip(metadata[k].summary.s))

\* C21: after per-object validation of a response map in tolerant mode
\* (validate_metadata_response, utils.validate_decision_response) the key
\* sets of the pass map and of the fail map are disjoint, and once the
\* validation has ended their union is the set of keys of the response.
C21_PassFailPartitionKeys ==
    allow =>
        /\ DOMAIN mpass \cap DOMAIN mfail = {}
        /\ mpc \in {"returned", "raised"} =>
              DOMAIN mpass \cup DOMAIN mfail = 1..Len(metadata)
        /\ dimpl = "utils" =>
              /\ DOMAIN dpass \cap DOMAIN dfail = {}
              /\ dpc \in {"returned", "raised"} =>
                    DOMAIN dpass \cup DOMAIN dfail = 1..Len(decisions)

C23_OnlySchemaFieldsWritten ==
    [][\A i \in 1..Len(articles) : \A f \in ArticleFields :
          articles'[i].attrs[f] # articles[i].attrs[f] =>
              /\ pc = "split"
              /\ i = si
              /\ articles[i].attrs[merge_key] \in DOMAIN response_pass
              /\ InSeq(f, response_pass[articles[i].attrs[merge_key]].model_fields)]_vars

C23_Witness ==
    /\ pc = "done"
    /\ \E i \in 1..Len(articles) :
          /\ InSeq(i, articles_pass)
          /\ articles[i].attrs.title = Str("T")
          /\ articles[i].attrs.summary = None
          /\ articles[i].attrs.url = HttpUrl("http://u1/")

\* C24: save_validated_responses writes the stage's pass file if and only
\* if articles_pass is non-empty and the stage's fail file if and only if
\* articles_fail is non-empty; nothing is written before the split has
\* returned, and an empty batch completes with no file and no exception.
C24_FilesIffNonEmpty ==
    /\ pc = "done" =>
          /\ <<stage, PassFile>> \in files <=> articles_pass # <<>>
          /\ <<stage, FailFile>> \in files <=> articles_fail # <<>>
          /\ files \subseteq {<<stage, PassFile>>, <<stage, FailFile>>}
    /\ pc # "done" => files = {}
    /\ (articles = <<>> /\ pc \in {"done", "raised"}) =>
          pc = "done" /\ files = {} /\ exc = NotRaised

C24_Witness ==
    /\ pc = "done"
    /\ articles_pass # <<>>
    /\ articles_fail = <<>>
    /\ files = {<<stage, PassFile>>}

\* C25: merge keys round-trip.  Once validate_llm_response has returned,
\* an article whose identity field (url for metadata, doi for screening and
\* priority) equals that of a response object valid for the stage finds its
\* record in response_pass, and when split_by_qc has returned the article
\* is in articles_pass.
C25_MergeKeysRoundTrip ==
    \A i \in 1..Len(articles) :
        ArticleKey(articles[i]) \in ValidKeys =>
            /\ pc \in {"split", "done"} =>
                  articles[i].attrs[merge_key] \in DOMAIN response_pass
            /\ pc = "done" => InSeq(i, articles_pass)

\* the articles of the k-th batch of fifty out of n, in input order
BatchOfFifty(k, n) ==
    [j \in 1..((IF k * 50 < n THEN k * 50 ELSE n) - (k - 1) * 50) |->
        (k - 1) * 50 + j]

\* C26: insert_article sends the articles in consecutive batches of at most
\* 50, in input order, and then the notes the same way: for n articles and a
\* Zotero that accepts every batch there are ceil(n/50) article calls
\* followed by ceil(n/50) note calls (75 articles: 50, 25, 50, 25), and no
\* call at all for n = 0.
C26_BatchesOfFifty ==
    /\ \A k \in 1..Len(zcalls) : Len(zcalls[k].items) \in 1..50
    /\ zpc = "done" =>
          LET b == (zarticles + 49) \div 50
          IN  /\ Len(zcalls) = 2 * b
              /\ \A k \in 1..b :
                    /\ zcalls[k].kind = "article"
                    /\ zcalls[k].items = BatchOfFifty(k, zarticles)
                    /\ zcalls[b + k].kind = "note"
                    /\ zcalls[b + k].items = BatchOfFifty(k, zarticles)

C26_Witness ==
    /\ zpc = "done"
    /\ zarticles = 75
    /\ Len(zcalls) = 4
    /\ Len(zcalls[1].items) = 50 /\ Len(zcalls[2].items) = 25
    /\ Len(zcalls[3].items) = 50 /\ Len(zcalls[4].items) = 25

\* the response reports a batch that was not stored whole
BatchFailed(c) ==
    \/ ~({"successful", "failed"} \subseteq c.resp.keys)
    \/ c.resp.successful # Len(c.items)
    \/ c.resp.failed # 0

\* C30: in insert_article no note is sent before every article batch has
\* been sent and accepted: each note call comes after all article calls,
\* none of which failed, and after every article was sent; when an article
\* batch fails the run ends with AssertionError and no note call is made.
C30_NotesAfterAllArticles ==
    /\ \A k \in 1..Len(zcalls) :
          zcalls[k].kind = "note" =>
              /\ \A j \in 1..Len(zcalls) :
                    zcalls[j].kind = "article" => j < k /\ ~BatchFailed(zcalls[j])
              /\ UNION {RangeOf(zcalls[j].items) : j \in 1..(k - 1)} = 1..zarticles
    /\ \A j \in 1..Len(zcalls) :
          (zcalls[j].kind = "article" /\ BatchFailed(zcalls[j])) =>
              /\ zpc = "raised"
              /\ zexc = "AssertionError"
              /\ \A k \in 1..Len(zcalls) : zcalls[k].kind # "note"

C30_Witness ==
    /\ zpc = "raised"
    /\ zexc = "AssertionError"
    /\ Len(zcalls) = 2
    /\ zcalls[1].kind = "article" /\ ~BatchFailed(zcalls[1])
    /\ zcalls[2].kind = "article" /\ BatchFailed(zcalls[2])

\* the articles whose url is not that of a journalArticle of the collection
NotInZotero ==
    SelectSeq(rarticles,
              LAMBDA a : \A j \in 1..Len(ritems) :
                  ritems[j].itemType = "journalArticle" => ritems[j].url.v # a.v)

\* C27: remove_processed writes to unprocessed_articles.json exactly the
\* input articles whose url is not the url of a journalArticle item of the
\* collection, and writes no file when every article is already there.
C27_OnlyUnprocessedWritten ==
    rpc = "done" =>
        IF NotInZotero = <<>>
           THEN ~unprocessed.written
           ELSE unprocessed.written /\ unprocessed.content = NotInZotero

\* C28: when split_by_qc raises in strict mode, no article of the batch has
\* been modified: every article is still as it was loaded, with no field
\* merged by the aborted call.
C28_NoPartialMergeOnRaise ==
    (pc = "raised" /\ ~allow) =>
        \A i \in 1..Len(articles) : articles[i] \in SplitArticles

\* the raw decision text is a variant of "false"
SaysFalse(text) == lower(text) \in {<<"f", "a", "l", "s", "e">>,
                                    <<"f", "a", "l", "s", "e", ".">>}

\* C29: an article whose screening decision was normalized to false is
\* excluded from the priority batch: the batch holds exactly the articles
\* with a doi other than "NULL" and a true screening decision, in order,
\* whatever textual variant the decision was given in.
C29_ScreenedOutExcluded ==
    ppc = "done" =>
        LET kept == {j \in 1..Len(particles) :
                        /\ particles[j].doi # Str("NULL")
                        /\ ~SaysFalse(particles[j].decision)}
        IN  /\ Len(pbatch) = Cardinality(kept)
            /\ \A j \in 1..Len(particles) :
                  SaysFalse(particles[j].decision) =>
                      \A k \in 1..Len(pbatch) : pbatch[k] # pscreened[j]

====
